---- MODULE Spec2Model ----
(***************************************************************************)
(* Model of ibridges.meta.MetaData (src/ibridges/meta.py): a view over the *)
(* attribute-value-units triplets (AVUs) of one remote iRODS item.         *)
(*                                                                         *)
(* The item's AVUs live on the remote; the view holds only the item handle *)
(* and the blacklist pattern.  Every operation of the view is one action;  *)
(* the remote calls an operation makes are threaded through a record       *)
(*   [avus, calls, err, ret]                                               *)
(* so that an operation's partial effects before an exception are kept.    *)
(***************************************************************************)
EXTENDS Bags, FiniteSets, Integers, Sequences, TLC

VARIABLES
    avus,       \* the item's AVUs in the order item.metadata.items() lists them
    access,     \* TRUE iff the remote grants the user write access to the item
    blacklist,  \* self.blacklist of the view
    kind,       \* what the item is: a collection, a data object or neither
    colls,      \* the paths of the collections in the tree below the item
    objs,       \* the paths of the data objects in that tree
    op,         \* the last operation called, with its arguments
    err,        \* the exception that operation raised, or "none"
    calls,      \* the remote add/remove calls that operation issued, in order
    ret,        \* the value that operation returned (None if it raised)
    d,          \* script: the dictionary saved by to_dict
    first,      \* script: the first of two add calls and its outcome
    all_metas,  \* stepwise call: the entries delete's loop has still to walk
    ext,        \* stepwise call: external changes of the AVUs during the call
    pc          \* script: position in the script ("idle" outside a script)

vars == <<avus, access, blacklist, kind, colls, objs, op, err, calls, ret, d, first,
          all_metas, ext, pc>>

-----------------------------------------------------------------------------
(* Bounds *)

MaxAvus == 3    \* most AVUs on the item
MaxDict == 2    \* most triplets in a dictionary handed to from_dict
MaxNodes == 3   \* most collections and data objects below the export root
MaxExt == 1     \* most external changes of the AVUs during one call

-----------------------------------------------------------------------------
(* Python values *)

None == "None"          \* Python's None
Ellipsis == "..."       \* Python's Ellipsis, the default of delete's value and units
NoError == "none"

\* The path of the item, as its segments.
Root == <<"zone", "home", "root">>

Names == {"A", "B", "org_x", "organism"}
Values == {"1", "2"}
StoredUnits == {None, "kg"}         \* the remote reports absent units as None
ArgUnits == {None, "", "kg"}        \* units a caller can pass

\* The characters of each name, for the regular-expression match.
Chars ==
    [n \in Names |->
        CASE n = "A" -> <<"A">>
          [] n = "B" -> <<"B">>
          [] n = "org_x" -> <<"o", "r", "g", "_", "x">>
          [] n = "organism" -> <<"o", "r", "g", "a", "n", "i", "s", "m">>]

\* The triplets the item holds in this model: every value and units on "A",
\* one entry on "B" and one on the blacklisted "org_x".
Triplets ==
    ({"A"} \X Values \X StoredUnits)
        \cup {<<"B", "1", None>>, <<"org_x", "1", None>>}

Range(s) == {s[i] : i \in 1..Len(s)}

NoDup(s) == \A i, j \in 1..Len(s) : i # j => s[i] # s[j]

RECURSIVE SeqsUpTo(_, _)
SeqsUpTo(S, n) ==
    IF n = 0 THEN {<<>>}
    ELSE LET shorter == SeqsUpTo(S, n - 1)
         IN  shorter \cup {Append(s, x) : s \in {t \in shorter : Len(t) = n - 1}, x \in S}

\* The AVU lists an item can hold: the catalog keeps no triplet twice.
AvuLists == {s \in SeqsUpTo(Triplets, MaxAvus) : NoDup(s)}

\* The "metadata" lists handed to from_dict, in any order and with
\* repetitions: an entry with and without units and a blacklisted one.
DictTriplets == {<<"A", "1", None>>, <<"A", "1", "kg">>, <<"org_x", "1", None>>}
DictLists == SeqsUpTo(DictTriplets, MaxDict)

-----------------------------------------------------------------------------
(* Blacklist *)

DefaultBlacklist == "^org_*"

\* re.match of the pattern at the start of name.  "^org_*" is the literal
\* "org" followed by zero or more "_": the starred part matches the empty
\* string too, so the match succeeds exactly when name begins with "org".
ReMatch(pattern, name) ==
    LET c == Chars[name]
    IN  /\ pattern = DefaultBlacklist
        /\ Len(c) >= 3
        /\ SubSeq(c, 1, 3) = <<"o", "r", "g">>

-----------------------------------------------------------------------------
(* The remote: item.metadata *)

St(a, c, e, r) == [avus |-> a, calls |-> c, err |-> e, ret |-> r]

Start(a) == St(a, <<>>, NoError, None)

Raise(st, e) == [st EXCEPT !.err = e]

\* Empty units and None units both mean "no units" on the wire.
WireUnits(u) == IF u = "" THEN None ELSE u

\* item.metadata.add(key, value, units)
RemoteAdd(st, k, v, u) ==
    LET t == <<k, v, WireUnits(u)>>
        c == Append(st.calls, <<"add", k, v, u>>)
    IN  IF ~access
        THEN St(st.avus, c, "CAT_NO_ACCESS_PERMISSION", None)
        ELSE IF t \in Range(st.avus)
        THEN St(st.avus, c, "CATALOG_ALREADY_HAS_ITEM_BY_THAT_NAME", None)
        ELSE St(Append(st.avus, t), c, NoError, None)

\* item.metadata.remove(key, value, units) and item.metadata.remove(meta)
RemoteRemove(st, k, v, u) ==
    LET t == <<k, v, WireUnits(u)>>
        c == Append(st.calls, <<"remove", k, v, u>>)
    IN  IF ~access
        THEN St(st.avus, c, "CAT_NO_ACCESS_PERMISSION", None)
        ELSE IF t \notin Range(st.avus)
        THEN St(st.avus, c, "CAT_SUCCESS_BUT_WITH_NO_INFO", None)
        ELSE St(SelectSeq(st.avus, LAMBDA m : m # t), c, NoError, None)

\* item.metadata.get_all(key): every AVU of that name, none is not an error
GetAll(avs, k) == SelectSeq(avs, LAMBDA m : m[1] = k)

-----------------------------------------------------------------------------
(* MetaData: read operations *)

\* Iteration that forgets the blacklist.
Iter_Unfiltered(avs) == avs

\* MetaData.__iter__
Iter(avs) ==
    IF blacklist = None
    THEN <<avs>> \o avs
    ELSE SelectSeq(avs, LAMBDA m : ~ReMatch(blacklist, m[1]))

\* MetaData.__len__
len(avs) == Len(Iter(avs))

\* A membership test without the None wildcard.
Contains_Exact(avs, val) ==
    LET metas == Iter(avs)
    IN  \E j \in 1..Len(metas) :
            \A i \in 1..Len(val) : metas[j][i] = val[i]

\* MetaData.__contains__, val a sequence of 1 to 3 components
Contains(avs, val) ==
    LET metas == Iter(avs)
    IN  \E j \in 1..Len(metas) :
            \A i \in 1..Len(val) : metas[j][i] = val[i] \/ val[i] = None

\* The keys argument of to_dict: None, or a list of names.
NoKeys == [given |-> FALSE, names |-> {}]
KeyList(S) == [given |-> TRUE, names |-> S]

\* A to_dict that ignores its keys argument.
to_dict_AllKeys(avs, keys) == Iter(avs)

\* MetaData.to_dict: the "metadata" list of the result
to_dict(avs, keys) ==
    IF ~keys.given
    THEN Iter(avs)
    ELSE SelectSeq(Iter(avs), LAMBDA m : m[1] \in keys.names)

\* MetaData.to_dict: the keys of the result; "checksum" for data objects only
DictFields(k) ==
    {"name", "irods_id", "metadata"}
        \cup (IF k = "data_object" THEN {"checksum"} ELSE {})

\* MetaData.to_dict: the whole result for an item of kind k
ToDictResult(avs, keys, k) ==
    [fields |-> DictFields(k), metadata |-> to_dict(avs, keys)]

\* The code point of each character that occurs in a name, value or units.
Code ==
    [c \in {"1", "2", "A", "B", "_", "a", "g", "i", "k", "m", "n", "o", "r",
            "s", "x"} |->
        CASE c = "1" -> 49 [] c = "2" -> 50 [] c = "A" -> 65 [] c = "B" -> 66
          [] c = "_" -> 95 [] c = "a" -> 97 [] c = "g" -> 103 [] c = "i" -> 105
          [] c = "k" -> 107 [] c = "m" -> 109 [] c = "n" -> 110 [] c = "o" -> 111
          [] c = "r" -> 114 [] c = "s" -> 115 [] c = "x" -> 120]

\* The characters of a name, value or units string.
Text(s) ==
    IF s \in Names THEN Chars[s]
    ELSE CASE s = "1" -> <<"1">>
           [] s = "2" -> <<"2">>
           [] s = "kg" -> <<"k", "g">>
           [] s = "" -> <<>>

\* Python's < on the character sequences of two strings.
RECURSIVE SeqLt(_, _)
SeqLt(x, y) ==
    IF y = <<>> THEN FALSE
    ELSE IF x = <<>> THEN TRUE
    ELSE IF Head(x) # Head(y) THEN Code[Head(x)] < Code[Head(y)]
    ELSE SeqLt(Tail(x), Tail(y))

\* Python's < on the sort keys (a is None, a) and (b is None, b) of
\* MetaData.__str__: False sorts before True.
KeyLt(a, b) ==
    IF (a = None) # (b = None)
    THEN b = None
    ELSE a # None /\ SeqLt(Text(a), Text(b))

\* x put into the sorted list after every entry that is not greater.
SortInsert(sorted, x, i) ==
    LET k == Cardinality({j \in 1..Len(sorted) : ~KeyLt(x[i], sorted[j][i])})
    IN  SubSeq(sorted, 1, k) \o <<x>> \o SubSeq(sorted, k + 1, Len(sorted))

\* sorted(meta_list, key=...) on component i: Python's sort is stable.
RECURSIVE Sorted(_, _)
Sorted(metas, i) ==
    IF metas = <<>> THEN <<>>
    ELSE SortInsert(Sorted(SubSeq(metas, 1, Len(metas) - 1), i),
                    metas[Len(metas)], i)

\* One line of MetaData.__str__
Line(m) ==
    " - {name: " \o m[1] \o ", value: " \o m[2] \o ", units: " \o m[3] \o "}"

\* MetaData.__str__, as the list of its lines
str(avs) ==
    LET meta_list == Sorted(Sorted(Sorted(Iter(avs), 3), 2), 1)
    IN  [i \in 1..Len(meta_list) |-> Line(meta_list[i])]

-----------------------------------------------------------------------------
(* MetaData: mutations.  Each takes and returns a record St(...); an      *)
(* exception is the err field, named after the place that raises it.      *)

\* The Python class of each exception, as an except clause sees it.
PyClass(e) ==
    CASE e \in {"Duplicate", "BlacklistViolation", "Validation", "NotFound",
                "DeleteNoAccess"} -> "ValueError"
      [] e = "AddNoAccess" -> "PermissionError"
      [] e = "DeleteNotFound" -> "KeyError"
      [] OTHER -> e

\* An add that never tests the key against the blacklist.
add_NoBlacklist(st, key, value, units) ==
    IF Contains(st.avus, <<key, value, units>>)
    THEN Raise(st, "Duplicate")
    ELSE LET r == RemoteAdd(st, key, value, units)
         IN  IF r.err = "CAT_NO_ACCESS_PERMISSION"
             THEN Raise(r, "AddNoAccess")
             ELSE r

\* MetaData.add
add(st, key, value, units) ==
    IF Contains(st.avus, <<key, value, units>>)
    THEN Raise(st, "Duplicate")
    ELSE IF ReMatch(blacklist, key)
    THEN Raise(st, "BlacklistViolation")
    ELSE LET r == RemoteAdd(st, key, value, units)
         IN  IF r.err = "CAT_NO_ACCESS_PERMISSION"
             THEN Raise(r, "AddNoAccess")
             ELSE r

\* A loop condition that no longer compares the value.
DeleteMatches_AnyValue(meta, value, units) ==
    \/ value = Ellipsis
    \/ units = Ellipsis
    \/ units = meta[3]

\* The condition of the loop in MetaData.delete, with Python's precedence:
\* a or (b and c) or d.
DeleteMatches(meta, value, units) ==
    \/ value = Ellipsis
    \/ (value = meta[2] /\ units = Ellipsis)
    \/ units = meta[3]

\* The loop of MetaData.delete over all_metas; the first exception ends it.
RECURSIVE DeleteLoop(_, _, _, _)
DeleteLoop(st, metas, value, units) ==
    IF metas = <<>> \/ st.err # NoError
    THEN st
    ELSE LET meta == Head(metas)
             r == IF DeleteMatches(meta, value, units)
                  THEN RemoteRemove(st, meta[1], meta[2], meta[3])
                  ELSE st
         IN  DeleteLoop(r, Tail(metas), value, units)

\* MetaData.delete
delete(st, key, value, units) ==
    LET r == IF value = Ellipsis \/ units = Ellipsis
             THEN DeleteLoop(st, GetAll(st.avus, key), value, units)
             ELSE RemoteRemove(st, key, value, units)
    IN  CASE r.err = "CAT_SUCCESS_BUT_WITH_NO_INFO" -> Raise(r, "DeleteNotFound")
          [] r.err = "CAT_NO_ACCESS_PERMISSION" -> Raise(r, "DeleteNoAccess")
          [] OTHER -> r

\* A set that adds without deleting the entries of the key first.
set_KeepsOld(st, key, value, units) == add(st, key, value, units)

\* MetaData.set
set(st, key, value, units) ==
    LET r == delete(st, key, Ellipsis, Ellipsis)
    IN  IF r.err # NoError THEN r ELSE add(r, key, value, units)

\* An update that does not look the entry up before it adds the replacement.
update_NoLookup(st, key, value, units, new_value, new_units) ==
    IF new_value = None /\ new_units = None
    THEN Raise(st, "Validation")
    ELSE IF new_value = ""
    THEN Raise(st, "Validation")
    ELSE LET r == IF new_value # None /\ new_units # None
                  THEN add(st, key, new_value, new_units)
                  ELSE IF new_value # None
                  THEN add(st, key, new_value, units)
                  ELSE add(st, key, value, new_units)
         IN  IF r.err # NoError
             THEN r
             ELSE IF units \notin {None, ""}
             THEN delete(r, key, value, units)
             ELSE delete(r, key, value, "")

\* An update that deletes the original before it adds the replacement.
update_DeleteFirst(st, key, value, units, new_value, new_units) ==
    IF new_value = None /\ new_units = None
    THEN Raise(st, "Validation")
    ELSE IF new_value = ""
    THEN Raise(st, "Validation")
    ELSE IF units = None /\ ~Contains(st.avus, <<key, value>>)
    THEN Raise(st, "NotFound")
    ELSE IF units # None /\ ~Contains(st.avus, <<key, value, units>>)
    THEN Raise(st, "NotFound")
    ELSE LET r == IF units \notin {None, ""}
                  THEN delete(st, key, value, units)
                  ELSE delete(st, key, value, "")
         IN  IF r.err # NoError
             THEN r
             ELSE IF new_value # None /\ new_units # None
             THEN add(r, key, new_value, new_units)
             ELSE IF new_value # None
             THEN add(r, key, new_value, units)
             ELSE add(r, key, value, new_units)

\* MetaData.update
update(st, key, value, units, new_value, new_units) ==
    IF new_value = None /\ new_units = None
    THEN Raise(st, "Validation")
    ELSE IF new_value = ""
    THEN Raise(st, "Validation")
    ELSE IF units = None /\ ~Contains(st.avus, <<key, value>>)
    THEN Raise(st, "NotFound")
    ELSE IF units # None /\ ~Contains(st.avus, <<key, value, units>>)
    THEN Raise(st, "NotFound")
    ELSE LET r == IF new_value # None /\ new_units # None
                  THEN add(st, key, new_value, new_units)
                  ELSE IF new_value # None
                  THEN add(st, key, new_value, units)
                  ELSE add(st, key, value, new_units)
         IN  IF r.err # NoError
             THEN r
             ELSE IF units \notin {None, ""}
             THEN delete(r, key, value, units)
             ELSE delete(r, key, value, "")

\* The loop of MetaData.clear over the entries the iteration yields.
RECURSIVE ClearLoop(_, _)
ClearLoop(st, metas) ==
    IF metas = <<>> \/ st.err # NoError
    THEN st
    ELSE LET meta == Head(metas)
         IN  ClearLoop(RemoteRemove(st, meta[1], meta[2], meta[3]), Tail(metas))

\* A clear that walks the item's own list instead of the filtered iteration.
clear_Everything(st) == ClearLoop(st, st.avus)

\* MetaData.clear
clear(st) == ClearLoop(st, Iter(st.avus))

\* MetaData.from_dict: the loop over meta_dict["metadata"]
RECURSIVE from_dict(_, _)
from_dict(st, metadata) ==
    IF metadata = <<>> \/ st.err # NoError
    THEN st
    ELSE LET t == Head(metadata)
             r == add(st, t[1], t[2], t[3])
             next == IF PyClass(r.err) = "ValueError" THEN Raise(r, NoError) ELSE r
         IN  from_dict(next, Tail(metadata))

-----------------------------------------------------------------------------
(* The view under arbitrary calls: a caller makes one call at a time and  *)
(* takes its outcome (Return) before the next call.                       *)

Idle == [name |-> "idle"]

Init ==
    /\ avus \in AvuLists
    /\ access \in BOOLEAN
    /\ blacklist = DefaultBlacklist
    /\ kind = "collection"
    /\ colls = {Root}
    /\ objs = {}
    /\ op = Idle
    /\ err = NoError
    /\ calls = <<>>
    /\ ret = None
    /\ d = <<>>
    /\ first = Idle
    /\ all_metas = <<>>
    /\ ext = 0
    /\ pc = "idle"

\* The outcome r of a call becomes the state; the item stays within the
\* model's bounds (at most MaxAvus entries, new ones all in Triplets).
Finish(o, r) ==
    /\ op = Idle
    /\ Len(r.avus) <= MaxAvus
    /\ Range(r.avus) \ Range(avus) \subseteq Triplets
    /\ avus' = r.avus
    /\ err' = r.err
    /\ calls' = r.calls
    /\ ret' = r.ret
    /\ op' = o
    /\ UNCHANGED <<access, blacklist, all_metas, ext, kind, colls, objs, d, first, pc>>

Add ==
    \E key \in Names, value \in Values, units \in ArgUnits :
        Finish([name |-> "add", key |-> key, value |-> value, units |-> units],
               add(Start(avus), key, value, units))

Set ==
    \E key \in Names, value \in Values, units \in ArgUnits :
        Finish([name |-> "set", key |-> key, value |-> value, units |-> units],
               set(Start(avus), key, value, units))

Update ==
    \E key \in Names, value \in Values, units \in ArgUnits,
       new_value \in Values \cup {None, ""}, new_units \in ArgUnits :
        Finish([name |-> "update", key |-> key, value |-> value, units |-> units,
                new_value |-> new_value, new_units |-> new_units],
               update(Start(avus), key, value, units, new_value, new_units))

Delete ==
    \E key \in Names, value \in Values \cup {Ellipsis},
       units \in ArgUnits \cup {Ellipsis} :
        Finish([name |-> "delete", key |-> key, value |-> value, units |-> units],
               delete(Start(avus), key, value, units))

Clear ==
    Finish([name |-> "clear"], clear(Start(avus)))

\* The outcome of an operation that reads the entries through the
\* iteration.  With a None blacklist the iteration yields the list of all
\* entries first, and reading .name, .value or .units of a list raises.
Read(value) ==
    IF blacklist = None
    THEN Raise(Start(avus), "AttributeError")
    ELSE [Start(avus) EXCEPT !.ret = value]

ToDict ==
    \E keys \in {NoKeys} \cup {KeyList(S) : S \in SUBSET {"A", "org_x"}} :
        Finish([name |-> "to_dict", keys |-> keys],
               Read(ToDictResult(avus, keys, kind)))

\* list(view)
Iterate ==
    Finish([name |-> "iter"], [Start(avus) EXCEPT !.ret = Iter(avus)])

\* len(view)
Length ==
    Finish([name |-> "len"], [Start(avus) EXCEPT !.ret = len(avus)])

\* The queries of a membership test: one to three components, each a
\* string or None.
Queries ==
    LET N == Names \cup {None}
        V == Values \cup {None}
        U == ArgUnits
    IN  {<<n>> : n \in N} \cup (N \X V) \cup (N \X V \X U)

\* val in view
In ==
    \E val \in Queries :
        Finish([name |-> "contains", val |-> val], Read(Contains(avus, val)))

\* str(view)
Str ==
    Finish([name |-> "str"], Read(str(avus)))

FromDict ==
    \E metadata \in DictLists :
        Finish([name |-> "from_dict", metadata |-> metadata],
               from_dict(Start(avus), metadata))

\* The owner of the item grants or withdraws the user's write access.
SetAccess ==
    /\ op = Idle
    /\ access' = ~access
    /\ UNCHANGED <<avus, blacklist, all_metas, ext, kind, colls, objs, op, err, calls, ret, d, first, pc>>

\* The caller has taken the outcome of its call.
Return ==
    /\ op # Idle
    /\ pc = "idle"
    /\ op' = Idle
    /\ err' = NoError
    /\ calls' = <<>>
    /\ ret' = None
    /\ UNCHANGED <<avus, access, blacklist, all_metas, ext, kind, colls, objs, d, first, pc>>

Next ==
    \/ Add
    \/ Set
    \/ Update
    \/ Delete
    \/ Clear
    \/ ToDict
    \/ FromDict
    \/ SetAccess
    \/ Return

Spec == Init /\ [][Next]_vars

\* update calls alone, on every item and under either access.
NextUpdate ==
    \/ Update
    \/ SetAccess
    \/ Return

SpecUpdate == Init /\ [][NextUpdate]_vars

-----------------------------------------------------------------------------
(* The restore script of from_dict's docstring:                           *)
(*   d = m.to_dict(); m.clear(); m.from_dict(d); m.to_dict()              *)
(* A call that raises ends the script.                                    *)

InitRestore ==
    /\ avus \in AvuLists
    /\ access \in BOOLEAN
    /\ blacklist = DefaultBlacklist
    /\ kind = "collection"
    /\ colls = {Root}
    /\ objs = {}
    /\ op = Idle
    /\ err = NoError
    /\ calls = <<>>
    /\ ret = None
    /\ d = <<>>
    /\ first = Idle
    /\ all_metas = <<>>
    /\ ext = 0
    /\ pc = "start"

\* One call of the script: its outcome r becomes the state.
ScriptStep(o, r, to) ==
    /\ avus' = r.avus
    /\ err' = r.err
    /\ calls' = r.calls
    /\ ret' = r.ret
    /\ op' = o
    /\ pc' = IF r.err = NoError THEN to ELSE "failed"
    /\ UNCHANGED <<access, blacklist, all_metas, ext, kind, colls, objs, first>>

RestoreSave ==
    /\ pc = "start"
    /\ d' = to_dict(avus, NoKeys)
    /\ ScriptStep([name |-> "to_dict", keys |-> NoKeys],
                  [Start(avus) EXCEPT !.ret = to_dict(avus, NoKeys)], "saved")

RestoreClear ==
    /\ pc = "saved"
    /\ ScriptStep([name |-> "clear"], clear(Start(avus)), "cleared")
    /\ UNCHANGED d

RestoreFromDict ==
    /\ pc = "cleared"
    /\ ScriptStep([name |-> "from_dict", metadata |-> d],
                  from_dict(Start(avus), d), "restored")
    /\ UNCHANGED d

RestoreToDict ==
    /\ pc = "restored"
    /\ ScriptStep([name |-> "to_dict", keys |-> NoKeys],
                  [Start(avus) EXCEPT !.ret = to_dict(avus, NoKeys)], "done")
    /\ UNCHANGED d

NextRestore ==
    \/ RestoreSave
    \/ RestoreClear
    \/ RestoreFromDict
    \/ RestoreToDict

SpecRestore == InitRestore /\ [][NextRestore]_vars

-----------------------------------------------------------------------------
(* Two add calls in a row with the same key and units and different       *)
(* values, as in the add/duplicate test of the specification.             *)

InitAddTwice ==
    /\ avus \in AvuLists
    /\ access \in BOOLEAN
    /\ blacklist = DefaultBlacklist
    /\ kind = "collection"
    /\ colls = {Root}
    /\ objs = {}
    /\ op = Idle
    /\ err = NoError
    /\ calls = <<>>
    /\ ret = None
    /\ d = <<>>
    /\ first = Idle
    /\ all_metas = <<>>
    /\ ext = 0
    /\ pc = "start"

AddFirst ==
    /\ pc = "start"
    /\ \E key \in Names, value \in Values, units \in ArgUnits :
        LET r == add(Start(avus), key, value, units)
        IN  /\ Len(r.avus) <= MaxAvus
            /\ avus' = r.avus
            /\ err' = r.err
            /\ calls' = r.calls
            /\ ret' = r.ret
            /\ op' = [name |-> "add", key |-> key, value |-> value, units |-> units]
            /\ first' = [name |-> "add", key |-> key, value |-> value, units |-> units,
                         err |-> r.err, before |-> avus]
            /\ pc' = "first"
            /\ UNCHANGED <<access, blacklist, all_metas, ext, kind, colls, objs, d>>

AddSecond ==
    /\ pc = "first"
    /\ \E value \in Values \ {first.value} :
        LET r == add(Start(avus), first.key, value, first.units)
        IN  /\ Len(r.avus) <= MaxAvus
            /\ avus' = r.avus
            /\ err' = r.err
            /\ calls' = r.calls
            /\ ret' = r.ret
            /\ op' = [name |-> "add", key |-> first.key, value |-> value,
                      units |-> first.units]
            /\ pc' = "second"
            /\ UNCHANGED <<access, blacklist, all_metas, ext, kind, colls, objs, d, first>>

NextAddTwice ==
    \/ AddFirst
    \/ AddSecond

SpecAddTwice == InitAddTwice /\ [][NextAddTwice]_vars

-----------------------------------------------------------------------------
(* The read operations of a view with the default blacklist, on items of  *)
(* both kinds that may hold an "organism" entry, and add.                 *)

ReadTriplets == Triplets \cup {<<"organism", "1", None>>}

InitRead ==
    /\ avus \in {s \in SeqsUpTo(ReadTriplets, MaxAvus) : NoDup(s)}
    /\ access = TRUE
    /\ blacklist = DefaultBlacklist
    /\ kind \in {"collection", "data_object"}
    /\ colls = (IF kind = "collection" THEN {Root} ELSE {})
    /\ objs = (IF kind = "data_object" THEN {Root} ELSE {})
    /\ op = Idle
    /\ err = NoError
    /\ calls = <<>>
    /\ ret = None
    /\ d = <<>>
    /\ first = Idle
    /\ all_metas = <<>>
    /\ ext = 0
    /\ pc = "idle"

NextRead ==
    \/ Iterate
    \/ Length
    \/ In
    \/ Str
    \/ ToDict
    \/ Add
    \/ Return

SpecRead == InitRead /\ [][NextRead]_vars

-----------------------------------------------------------------------------
(* A view constructed with blacklist=None.                                *)

InitUnfiltered ==
    /\ avus \in AvuLists
    /\ access \in BOOLEAN
    /\ blacklist = None
    /\ kind \in {"collection", "data_object"}
    /\ colls = (IF kind = "collection" THEN {Root} ELSE {})
    /\ objs = (IF kind = "data_object" THEN {Root} ELSE {})
    /\ op = Idle
    /\ err = NoError
    /\ calls = <<>>
    /\ ret = None
    /\ d = <<>>
    /\ first = Idle
    /\ all_metas = <<>>
    /\ ext = 0
    /\ pc = "idle"

NextUnfiltered ==
    \/ Iterate
    \/ Length
    \/ In
    \/ Str
    \/ ToDict
    \/ Delete
    \/ Return

SpecUnfiltered == InitUnfiltered /\ [][NextUnfiltered]_vars

-----------------------------------------------------------------------------
(* Export of the metadata of an item and, for a collection, of everything *)
(* below it.  A path is the sequence of its segments; colls and objs are  *)
(* the collections and data objects that exist; the view's item is Root.  *)

CollNames == {"s", "t"}
ObjNames == {"x"}

\* The order in which a collection lists its members.
NameOrder == <<"s", "t", "x">>

\* IrodsPath(session, path).parts: the root "/" and the segments
Parts(path) == <<"/">> \o path

\* '/'.join(parts)
RECURSIVE Join(_)
Join(parts) ==
    IF parts = <<>> THEN ""
    ELSE IF Len(parts) = 1 THEN parts[1]
    ELSE parts[1] \o "/" \o Join(Tail(parts))

is_dataobject(k) == k = "data_object"

is_collection(k) == k = "collection"

\* The members of kind S (colls or objs) directly in collection coll, in
\* listing order.
Members(S, coll) ==
    SelectSeq([i \in 1..Len(NameOrder) |-> Append(coll, NameOrder[i])],
              LAMBDA q : q \in S)

\* coll.data_objects
data_objects(coll) == Members(objs, coll)

\* coll.subcollections
subcollections(coll) == Members(colls, coll)

\* The AVUs of the items below the root.
NodeAvus(path) ==
    IF path \in objs
    THEN << <<"A", "1", None>>, <<"org_x", "1", None>> >>
    ELSE << <<"B", "1", None>> >>

\* MetaData(o).to_dict(): a new view with the default blacklist, no keys
NodeDict(path) ==
    [fields |-> DictFields(IF path \in objs THEN "data_object" ELSE "collection"),
     metadata |-> SelectSeq(NodeAvus(path),
                            LAMBDA m : ~ReMatch(DefaultBlacklist, m[1]))]

\* A Python value together with its type, where the type is not fixed.
Py(type, value) == [type |-> type, value |-> value]

\* A record whose rel_path is relative to the item's parent.
Record_ParentRelative(path, coll_path) ==
    [name |-> path[Len(path)],
     irods_id |-> path,
     rel_path |-> path[Len(path)],
     metadata |-> Py("dict", NodeDict(path))]

\* The record of one item below the root; its "metadata" is the dict that
\* to_dict returns.
Record(path, coll_path) ==
    [name |-> path[Len(path)],
     irods_id |-> path,
     rel_path |-> Join(SubSeq(Parts(path), Len(coll_path) + 1, Len(Parts(path)))),
     metadata |-> Py("dict", NodeDict(path))]

RECURSIVE Flatten(_)
Flatten(lists) ==
    IF lists = <<>> THEN <<>> ELSE Head(lists) \o Flatten(Tail(lists))

RECURSIVE get_subcolls(_, _)

\* A walk that does not descend into the subcollections.
Descend_Never(subs, root) == << <<>>, <<>> >>

\* The loop over coll.subcollections: what the recursive calls add to the
\* two lists.
Descend(subs, root) ==
    LET sub == [i \in 1..Len(subs) |-> get_subcolls(subs[i], root)]
    IN  <<Flatten([i \in 1..Len(subs) |-> sub[i][1]]),
          Flatten([i \in 1..Len(subs) |-> sub[i][2]])>>

\* A walk that keeps the subcollection records of the direct children only.
get_subcolls_DropsDeeper(coll, root) ==
    LET base == IF root # None THEN root ELSE coll
        coll_path == Parts(base)
        dobjs == data_objects(coll)
        subs == subcollections(coll)
        objects == [i \in 1..Len(dobjs) |-> Record(dobjs[i], coll_path)]
        collections == [i \in 1..Len(subs) |-> Record(subs[i], coll_path)]
    IN  IF Len(subs) > 0
        THEN LET below == Descend(subs, base)
             IN  <<objects \o below[1], collections>>
        ELSE <<objects, <<>>>>

\* get_subcolls(session, coll, root): <<objects, collections>>; root is the
\* path of the export root or None.
get_subcolls(coll, root) ==
    LET base == IF root # None THEN root ELSE coll
        coll_path == Parts(base)
        dobjs == data_objects(coll)
        subs == subcollections(coll)
        objects == [i \in 1..Len(dobjs) |-> Record(dobjs[i], coll_path)]
        collections == [i \in 1..Len(subs) |-> Record(subs[i], coll_path)]
    IN  IF Len(subs) > 0
        THEN LET below == Descend(subs, base)
             IN  <<objects \o below[1], collections \o below[2]>>
        ELSE <<objects, <<>>>>

\* An export that walks the collection whatever recursive is.
export_AlwaysRecursive(recursive, keys) ==
    LET md == Read(ToDictResult(avus, keys, kind))
    IN  IF is_dataobject(kind) THEN md
        ELSE IF is_collection(kind)
        THEN IF md.err = NoError
             THEN LET found == get_subcolls(Root, Root)
                  IN  [md EXCEPT !.ret =
                          [fields |-> md.ret.fields
                                        \cup {"subcollections", "dataobjects"},
                           metadata |-> md.ret.metadata,
                           subcollections |-> found[2],
                           dataobjects |-> found[1]]]
             ELSE md
        ELSE Raise(Start(avus), "ValueError")

\* export_metadata_to_dict(meta, session, recursive, keys)
export_metadata_to_dict(recursive, keys) ==
    LET md == Read(ToDictResult(avus, keys, kind))
    IN  IF is_dataobject(kind) THEN md
        ELSE IF is_collection(kind)
        THEN IF md.err = NoError /\ recursive
             THEN LET found == get_subcolls(Root, Root)
                  IN  [md EXCEPT !.ret =
                          [fields |-> md.ret.fields
                                        \cup {"subcollections", "dataobjects"},
                           metadata |-> md.ret.metadata,
                           subcollections |-> found[2],
                           dataobjects |-> found[1]]]
             ELSE md
        ELSE Raise(Start(avus), "ValueError")

Export ==
    \E recursive \in BOOLEAN, keys \in {NoKeys, KeyList({"A"})} :
        Finish([name |-> "export", recursive |-> recursive, keys |-> keys],
               export_metadata_to_dict(recursive, keys))

\* A new item is put into a collection that exists.
NewItem(S, names) ==
    /\ op = Idle
    /\ Cardinality(colls \cup objs) <= MaxNodes
    /\ \E parent \in colls, name \in names :
            /\ Append(parent, name) \notin colls \cup objs
            /\ S' = S \cup {Append(parent, name)}

createCollection ==
    /\ NewItem(colls, CollNames)
    /\ UNCHANGED <<avus, access, blacklist, all_metas, ext, kind, objs, op, err, calls, ret, d, first, pc>>

fileUpload ==
    /\ NewItem(objs, ObjNames)
    /\ UNCHANGED <<avus, access, blacklist, all_metas, ext, kind, colls, op, err, calls, ret, d, first, pc>>

InitExport ==
    /\ avus \in {s \in AvuLists : Len(s) <= 1}
    /\ access = TRUE
    /\ blacklist = DefaultBlacklist
    /\ kind \in {"collection", "data_object", "other"}
    /\ colls = (IF kind = "collection" THEN {Root} ELSE {})
    /\ objs = (IF kind = "data_object" THEN {Root} ELSE {})
    /\ op = Idle
    /\ err = NoError
    /\ calls = <<>>
    /\ ret = None
    /\ d = <<>>
    /\ first = Idle
    /\ all_metas = <<>>
    /\ ext = 0
    /\ pc = "idle"

NextExport ==
    \/ createCollection
    \/ fileUpload
    \/ Export
    \/ Return

SpecExport == InitExport /\ [][NextExport]_vars

-----------------------------------------------------------------------------
(* set and update one remote call at a time, with another client of the   *)
(* same item that changes its AVUs or the user's access between the calls. *)
(* pc is the position of the running call: "idle", "get_all",              *)
(* "remove_loop", "lookup", "contains", "add", "remove", "done".           *)

StepTriplets == {<<"A", "1", None>>, <<"A", "1", "kg">>, <<"org_x", "1", None>>}

\* The item and the call log as the next remote call of the running
\* operation finds them.
Now == St(avus, calls, NoError, None)

\* The except clauses of MetaData.delete
DeleteExcept(r) ==
    CASE r.err = "CAT_SUCCESS_BUT_WITH_NO_INFO" -> Raise(r, "DeleteNotFound")
      [] r.err = "CAT_NO_ACCESS_PERMISSION" -> Raise(r, "DeleteNoAccess")
      [] OTHER -> r

\* The triplets the remove calls of a log took off the item.
Removed(cs) ==
    LET rm == SelectSeq(cs, LAMBDA c : c[1] = "remove")
    IN  [i \in 1..Len(rm) |-> <<rm[i][2], rm[i][3], WireUnits(rm[i][4])>>]

\* An except clause that puts the removed entries back before it raises.
AddExcept_Restores(r) ==
    IF r.err = "CAT_NO_ACCESS_PERMISSION"
    THEN Raise([r EXCEPT !.avus = r.avus \o Removed(r.calls)], "AddNoAccess")
    ELSE r

\* The except clause of MetaData.add
AddExcept(r) ==
    IF r.err = "CAT_NO_ACCESS_PERMISSION" THEN Raise(r, "AddNoAccess") ELSE r

\* The triplet the running call hands to self.add
AddArgs(o) ==
    IF o.name = "set" THEN <<o.key, o.value, o.units>>
    ELSE IF o.new_value # None /\ o.new_units # None
    THEN <<o.key, o.new_value, o.new_units>>
    ELSE IF o.new_value # None
    THEN <<o.key, o.new_value, o.units>>
    ELSE <<o.key, o.value, o.new_units>>

\* The running call goes on with outcome r: an exception ends it.
Step(r, to, metas) ==
    /\ avus' = r.avus
    /\ calls' = r.calls
    /\ err' = r.err
    /\ pc' = (IF r.err # NoError THEN "done" ELSE to)
    /\ all_metas' = metas
    /\ UNCHANGED <<access, blacklist, kind, colls, objs, op, ret, d, first, ext>>

InitSteps ==
    /\ avus \in {s \in SeqsUpTo(StepTriplets, MaxAvus - 1) : NoDup(s)}
    /\ access \in BOOLEAN
    /\ blacklist = DefaultBlacklist
    /\ kind = "collection"
    /\ colls = {Root}
    /\ objs = {}
    /\ op = Idle
    /\ err = NoError
    /\ calls = <<>>
    /\ ret = None
    /\ d = <<>>
    /\ first = Idle
    /\ all_metas = <<>>
    /\ ext = 0
    /\ pc = "idle"

\* set(key, value, units) is called: self.delete(key) begins
CallSet ==
    /\ pc = "idle"
    /\ \E key \in {"A", "org_x"}, value \in Values, units \in StoredUnits :
            op' = [name |-> "set", key |-> key, value |-> value, units |-> units]
    /\ pc' = "get_all"
    /\ UNCHANGED <<avus, access, blacklist, kind, colls, objs, err, calls, ret, d,
                   first, all_metas, ext>>

\* delete: all_metas = self.item.metadata.get_all(key)
GetAllStep ==
    /\ pc = "get_all"
    /\ Step(Now, "remove_loop", GetAll(avus, op.key))

\* A turn of the loop that leaves the entry on the item.
RemoveNext_Skip(st, meta) == st

\* self.item.metadata.remove(meta)
RemoveNext(st, meta) == RemoteRemove(st, meta[1], meta[2], meta[3])

\* delete: one turn of the loop over all_metas, or its end, after which
\* self.add begins
RemoveLoop ==
    /\ pc = "remove_loop"
    /\ IF all_metas = <<>>
       THEN Step(Now, "contains", <<>>)
       ELSE Step(DeleteExcept(RemoveNext(Now, Head(all_metas))),
                 "remove_loop", Tail(all_metas))

\* update(key, value, units, new_value, new_units) is called: the checks of
\* its arguments
CallUpdate ==
    /\ pc = "idle"
    /\ \E value \in Values, units \in StoredUnits,
          new_value \in {None, "2"}, new_units \in ArgUnits :
            LET o == [name |-> "update", key |-> "A", value |-> value,
                      units |-> units, new_value |-> new_value,
                      new_units |-> new_units]
            IN  /\ op' = o
                /\ IF new_value = None /\ new_units = None
                   THEN err' = "Validation" /\ pc' = "done"
                   ELSE err' = err /\ pc' = "lookup"
    /\ UNCHANGED <<avus, access, blacklist, kind, colls, objs, calls, ret, d,
                   first, all_metas, ext>>

\* update: (key, value) in self or (key, value, units) in self
Lookup ==
    /\ pc = "lookup"
    /\ LET val == IF op.units = None THEN <<op.key, op.value>>
                  ELSE <<op.key, op.value, op.units>>
       IN  IF Contains(avus, val)
           THEN Step(Now, "contains", <<>>)
           ELSE Step(Raise(Now, "NotFound"), "done", <<>>)

\* add: the duplicate test and the blacklist test
AddContains ==
    /\ pc = "contains"
    /\ LET t == AddArgs(op)
       IN  IF Contains(avus, t)
           THEN Step(Raise(Now, "Duplicate"), "done", <<>>)
           ELSE IF ReMatch(blacklist, t[1])
           THEN Step(Raise(Now, "BlacklistViolation"), "done", <<>>)
           ELSE Step(Now, "add", <<>>)

\* add: self.item.metadata.add(key, value, units); set returns after it,
\* update goes on to its delete
AddRemote ==
    /\ pc = "add"
    /\ LET t == AddArgs(op)
       IN  Step(AddExcept(RemoteAdd(Now, t[1], t[2], t[3])),
                IF op.name = "set" THEN "done" ELSE "remove", <<>>)

\* update: self.delete(key, value, units) or self.delete(key, value, '')
RemoveOriginal ==
    /\ pc = "remove"
    /\ Step(DeleteExcept(RemoteRemove(Now, op.key, op.value,
                IF op.units \notin {None, ""} THEN op.units ELSE "")),
            "done", <<>>)

\* The caller takes the result; the next call can begin.
ReturnStep ==
    /\ pc = "done"
    /\ op' = Idle /\ err' = NoError /\ calls' = <<>> /\ ext' = 0 /\ pc' = "idle"
    /\ all_metas' = <<>>
    /\ UNCHANGED <<avus, access, blacklist, kind, colls, objs, ret, d, first>>

\* Another client changes the AVUs of the item; ext counts the changes
\* made while a call is running.
External(new) ==
    /\ pc = "idle" \/ ext < MaxExt
    /\ avus' = new
    /\ ext' = (IF pc = "idle" THEN 0 ELSE ext + 1)
    /\ UNCHANGED <<access, blacklist, kind, colls, objs, op, err, calls, ret, d,
                   first, all_metas, pc>>

ExternalAdd ==
    \E t \in StepTriplets \ Range(avus) : External(Append(avus, t))

ExternalRemove ==
    \E t \in Range(avus) : External(SelectSeq(avus, LAMBDA m : m # t))

\* The owner of the item grants or revokes the user's write access.
ExternalChmod ==
    /\ access' = ~access
    /\ UNCHANGED <<avus, blacklist, kind, colls, objs, op, err, calls, ret, d,
                   first, all_metas, ext, pc>>

NextSteps ==
    \/ CallSet
    \/ GetAllStep
    \/ RemoveLoop
    \/ CallUpdate
    \/ Lookup
    \/ AddContains
    \/ AddRemote
    \/ RemoveOriginal
    \/ ReturnStep
    \/ ExternalAdd
    \/ ExternalRemove
    \/ ExternalChmod

SpecSteps == InitSteps /\ [][NextSteps]_vars

-----------------------------------------------------------------------------
(* Properties *)

\* The name matches the view's blacklist pattern.
Blacklisted(name) == ReMatch(blacklist, name)

\* The AVUs of a list whose name matches the blacklist.
BlacklistedAvus(avs) == {m \in Range(avs) : Blacklisted(m[1])}

\* A list as a multiset.
SeqBag(s) == [x \in Range(s) |-> Cardinality({i \in 1..Len(s) : s[i] = x})]

\* The triplet the remote stores for the arguments of add or set.
Stored(key, value, units) == <<key, value, WireUnits(units)>>

Mutators == {"add", "set", "update", "delete", "clear", "from_dict"}

\* C1: Restore round trip.  When the script d = m.to_dict(); m.clear();
\* m.from_dict(d); m.to_dict() has run, the final metadata list equals
\* d["metadata"] as a multiset of triplets, whatever AVUs the item held and
\* in whatever order it stored them.
C1_RestoreRoundTrip ==
    pc = "done" => SeqBag(ret) = SeqBag(d)

\* C2: Blacklisted entries are never deleted or mutated.  Every call of add,
\* set, update, delete, clear or from_dict, with any arguments and whether
\* it succeeds or fails, leaves the set of AVUs whose name matches the
\* blacklist as it was.
C2_BlacklistedNeverTouched ==
    [][op'.name \in Mutators => BlacklistedAvus(avus') = BlacklistedAvus(avus)]_vars

\* C3 (state part): an AVU on the item whose name matches the blacklist is
\* not yielded by iteration, is not counted by len and is not in
\* to_dict()["metadata"], with or without a keys filter.
C3_Hidden ==
    /\ \A m \in BlacklistedAvus(avus) :
        /\ m \notin Range(Iter(avus))
        /\ m \notin Range(to_dict(avus, NoKeys))
        /\ m \notin Range(to_dict(avus, KeyList({m[1]})))
    /\ len(avus) = Cardinality({i \in 1..Len(avus) : ~Blacklisted(avus[i][1])})

\* C3 (clear part): clear() issues no remove for an AVU whose name matches
\* the blacklist, and every such AVU is still on the item afterwards.
C3_ClearSkips ==
    op'.name = "clear" =>
        \A m \in BlacklistedAvus(avus) :
            /\ m \in Range(avus')
            /\ \A i \in 1..Len(calls') : calls'[i] # <<"remove", m[1], m[2], m[3]>>

\* C3: Blacklist exclusion.  In every reachable state no AVU whose name
\* matches the view's blacklist is yielded by iteration, counted by len or
\* listed by to_dict, and no such AVU is among the entries clear() removes.
C3_BlacklistExclusion ==
    []C3_Hidden /\ [][C3_ClearSkips]_vars

\* C3 witness: clear() has removed a visible entry from an item that also
\* holds a blacklisted entry.
C3_Witness ==
    /\ op.name = "clear"
    /\ err = NoError
    /\ calls # <<>>
    /\ BlacklistedAvus(avus) # {}

\* C4: add(key, value, units) is rejected as a duplicate only when the exact
\* triplet is already on the item; for a key off the blacklist and with
\* access, add(key, value) without units succeeds and adds (key, value, None)
\* when no entry (key, value, None) exists, even if entries with that key and
\* value and non-empty units do.
C4_DuplicateOnlyIfExact ==
    [][op'.name = "add" =>
        /\ err' = "Duplicate" =>
                <<op'.key, op'.value, op'.units>> \in Range(avus)
        /\ (/\ op'.units = None
            /\ ~Blacklisted(op'.key)
            /\ access
            /\ <<op'.key, op'.value, None>> \notin Range(avus))
            => (/\ err' = NoError
                /\ <<op'.key, op'.value, None>> \in Range(avus'))]_vars

\* The first add call of the script named a triplet that was on the item,
\* under a key off the blacklist.
FirstPresent ==
    /\ <<first.key, first.value, first.units>> \in Range(first.before)
    /\ ~Blacklisted(first.key)

\* C5: Add/duplicate.  add with a triplet that is already present fails with
\* Duplicate and leaves the item unchanged; a following add with the same
\* key and units and a different value, whose triplet is not yet on the
\* item, succeeds with access, and afterwards both entries and every entry
\* held before are on the item.
C5_AddDuplicate ==
    /\ (pc \in {"first", "second"} /\ FirstPresent) => first.err = "Duplicate"
    /\ (pc = "first" /\ FirstPresent) => avus = first.before
    /\ (/\ pc = "second"
        /\ FirstPresent
        /\ access
        /\ Stored(op.key, op.value, op.units) \notin Range(first.before))
        => (/\ err = NoError
            /\ Stored(op.key, op.value, op.units) \in Range(avus)
            /\ Range(first.before) \subseteq Range(avus))

\* C6: Set replaces all.  For a key off the blacklist and with access,
\* set(key, value, units) returns without error, after it the item holds
\* exactly one entry with that key, the triplet (key, value, units) as the
\* remote stores it, and the entries with other keys are as before.
C6_SetReplacesAll ==
    [][(op'.name = "set" /\ ~Blacklisted(op'.key) /\ access) =>
        LET o == op'
        IN  /\ err' = NoError
            /\ GetAll(avus', o.key) = <<Stored(o.key, o.value, o.units)>>
            /\ SelectSeq(avus', LAMBDA m : m[1] # o.key)
                    = SelectSeq(avus, LAMBDA m : m[1] # o.key)]_vars

\* C6 witness: set has replaced two entries of its key by one, next to an
\* entry with another key.
C6_Witness ==
    /\ op.name = "set"
    /\ err = NoError
    /\ Len(calls) = 3
    /\ Len(avus) = 2

\* The three granularities of delete: by key, by key and value, by triplet.
Granular(o) == ~(o.value = Ellipsis /\ o.units # Ellipsis)

\* The entries a delete call is aimed at, for each of the three granularities.
DeleteTarget(o, m) ==
    /\ m[1] = o.key
    /\ o.value # Ellipsis => m[2] = o.value
    /\ o.units # Ellipsis => m[3] = WireUnits(o.units)

\* C7: Delete granularities.  With access, delete(key) removes every entry
\* with that key, delete(key, value) every entry with that key and value
\* whatever its units, delete(key, value, units) the exact triplet only; all
\* other entries, those with other keys among them, stay as they were.
C7_DeleteGranularities ==
    [][(op'.name = "delete" /\ Granular(op') /\ access) =>
        LET o == op'
        IN  avus' = SelectSeq(avus, LAMBDA m : ~DeleteTarget(o, m))]_vars

\* C7 witness: delete(key, value) has removed two entries that differ in
\* units and has left an entry with the same key and another value.
C7_Witness ==
    /\ op.name = "delete"
    /\ op.value # Ellipsis
    /\ op.units = Ellipsis
    /\ err = NoError
    /\ Len(calls) = 2
    /\ \E m \in Range(avus) : m[1] = op.key

\* C8: delete fails with NotFound (KeyError) whenever no entry is targeted,
\* at each of its three granularities, and leaves the item unchanged.
C8_DeleteNotFound ==
    [][(/\ op'.name = "delete"
        /\ Granular(op')
        /\ access
        /\ \A m \in Range(avus) : ~DeleteTarget(op', m))
        => (err' = "DeleteNotFound" /\ avus' = avus)]_vars

\* The entries an update call can be aimed at: units omitted matches any.
UpdateMatch(o, m) ==
    /\ m[1] = o.key
    /\ m[2] = o.value
    /\ o.units # None => m[3] = o.units

\* The replacement of entry m: the new value and units where given.
Replacement(o, m) ==
    <<o.key,
      IF o.new_value # None THEN o.new_value ELSE m[2],
      IF o.new_units # None THEN WireUnits(o.new_units) ELSE m[3]>>

\* C9: Successful update.  When update returns without error, some entry it
\* matched is gone from the item, that entry's replacement is on the item,
\* and every other entry is unchanged.
C9_UpdatePostcondition ==
    [][(op'.name = "update" /\ err' = NoError) =>
        \E m \in Range(avus) :
            /\ UpdateMatch(op', m)
            /\ m \notin Range(avus')
            /\ Replacement(op', m) \in Range(avus')
            /\ Range(avus') = (Range(avus) \ {m}) \cup {Replacement(op', m)}]_vars

\* update's arguments fail validation.
Invalid(o) == (o.new_value = None /\ o.new_units = None) \/ o.new_value = ""

\* C10: Update precondition errors.  update fails with Validation when
\* new_value and new_units are both absent or new_value is empty, and with
\* NotFound when its arguments are valid and no entry of the item matches
\* (key, value[, units]); in both cases it issues no remote call and the item
\* is unchanged.
C10_UpdatePreconditions ==
    [][op'.name = "update" =>
        /\ Invalid(op') =>
                (err' = "Validation" /\ calls' = <<>> /\ avus' = avus)
        /\ (~Invalid(op') /\ \A m \in Range(avus) : ~UpdateMatch(op', m)) =>
                (err' = "NotFound" /\ calls' = <<>> /\ avus' = avus)]_vars

\* C10 witness: a valid update of an entry that a non-empty item lacks has
\* failed with NotFound.
C10_Witness ==
    /\ op.name = "update"
    /\ err = "NotFound"
    /\ op.new_value \in Values
    /\ avus # <<>>

\* The index of the first triplet of a from_dict list whose add fails with
\* something other than a duplicate, when access is granted: the first one
\* with a blacklisted name (0 if there is none).
FirstBlacklisted(metadata) ==
    IF \E i \in 1..Len(metadata) : Blacklisted(metadata[i][1])
    THEN CHOOSE i \in 1..Len(metadata) :
            /\ Blacklisted(metadata[i][1])
            /\ \A j \in 1..(i - 1) : ~Blacklisted(metadata[j][1])
    ELSE 0

\* C11: from_dict suppresses only Duplicate errors.  When the add of a
\* triplet fails with a blacklist violation or a permission error, from_dict
\* raises that error and attempts no later triplet; only duplicates are
\* swallowed.
C11_FromDictSuppressesOnlyDuplicates ==
    [][op'.name = "from_dict" =>
        LET metadata == op'.metadata
            b == FirstBlacklisted(metadata)
        IN  /\ (access /\ b # 0) => err' = "BlacklistViolation"
            /\ (access /\ b = 0) => err' = NoError
            /\ (~access /\ calls' # <<>>) =>
                    (err' = "AddNoAccess" /\ Len(calls') = 1)]_vars

\* The remote denied a call of the last operation: the user has no access
\* and the operation issued an add, or a remove of an entry that is on the
\* item.
Denied ==
    /\ ~access
    /\ calls # <<>>
    /\ LET c == calls[Len(calls)]
       IN  c[1] = "remove" => <<c[2], c[3], WireUnits(c[4])>> \in Range(avus)

\* C12: Permission errors.  Whenever the remote denies access, add, delete,
\* set, update and clear fail with an error of the PermissionDenied kind
\* (Python's PermissionError), a class none of the other failures has.
C12_PermissionKind ==
    (op.name \in {"add", "delete", "set", "update", "clear"} /\ Denied)
        => PyClass(err) = "PermissionError"

\* C16: clear() removes exactly the visible entries.  With access, clear()
\* returns without error, len(view) is 0 afterwards, every entry off the
\* blacklist is gone and the blacklisted entries are on the item as before.
C16_ClearRemovesVisible ==
    [][(op'.name = "clear" /\ access) =>
        /\ err' = NoError
        /\ len(avus') = 0
        /\ avus' = SelectSeq(avus, LAMBDA m : Blacklisted(m[1]))]_vars

\* C16 witness: clear() has removed two visible entries and has left a
\* blacklisted one.
C16_Witness ==
    /\ op.name = "clear"
    /\ err = NoError
    /\ Len(calls) = 2
    /\ Len(avus) = 1

\* C19: Add with a blacklisted key.  add with a key that matches the
\* blacklist fails with BlacklistViolation, issues no remote call and leaves
\* the item unchanged, whether or not the triplet is stored on the item.
C19_AddBlacklistedKey ==
    [][(op'.name = "add" /\ Blacklisted(op'.key)) =>
        /\ err' = "BlacklistViolation"
        /\ calls' = <<>>
        /\ avus' = avus]_vars

\* C19 witness: add was called with a blacklisted triplet that is stored on
\* the item, and failed with BlacklistViolation.
C19_Witness ==
    /\ op.name = "add"
    /\ err = "BlacklistViolation"
    /\ Stored(op.key, op.value, op.units) \in Range(avus)

\* C13: None blacklist.  With a None blacklist, iteration over the view
\* yields exactly the entries of the item, each once and nothing else, and
\* len(view) is the number of entries on the item.
C13_UnfilteredIteration ==
    /\ op.name = "iter" =>
            /\ Len(ret) = Len(avus)
            /\ \A i \in 1..Len(avus) : ret[i] = avus[i]
    /\ op.name = "len" => ret = Len(avus)

\* The names that start with the prefix "org_".
OrgPrefix(name) ==
    /\ Len(Chars[name]) >= 4
    /\ SubSeq(Chars[name], 1, 4) = <<"o", "r", "g", "_">>

\* C14: Default blacklist.  With the default blacklist, iteration skips
\* exactly the entries whose name starts with "org_", and add rejects
\* exactly the keys that start with "org_" as blacklisted.
C14_DefaultBlacklistPrefix ==
    /\ op.name = "iter" =>
            \A m \in Range(avus) : (m \in Range(ret)) <=> ~OrgPrefix(m[1])
    /\ op.name = "add" =>
            ((err = "BlacklistViolation") <=> OrgPrefix(op.key))

\* An entry equals a query at every supplied position, None matching any
\* value.
Matches(m, val) ==
    \A i \in 1..Len(val) : val[i] = None \/ m[i] = val[i]

\* C15: Membership.  `val in view` is true iff some non-blacklisted entry of
\* the item equals the query at every supplied position, a None matching
\* any value at its position.
C15_Membership ==
    op.name = "contains" =>
        /\ err = NoError
        /\ ret = (\E m \in Range(avus) : ~Blacklisted(m[1]) /\ Matches(m, op.val))

\* C15 witness: a two-component query is contained through an entry that
\* has units, while a blacklisted entry on the item is not reported.
C15_Witness ==
    /\ op.name = "contains"
    /\ Len(op.val) = 2
    /\ op.val[1] # None
    /\ ret = TRUE
    /\ \A m \in Range(avus) : Matches(m, op.val) => m[3] = "kg"
    /\ BlacklistedAvus(avus) # {}

\* C17: to_dict(keys).  The "metadata" list of the result holds the
\* triplets of the non-blacklisted entries, restricted to the names in keys
\* when keys is given; the result has a "checksum" field iff the item is a
\* data object; the item is not changed and no remote call is made.
C17_ToDict ==
    [][op'.name = "to_dict" =>
        /\ err' = NoError
        /\ ret'.metadata =
              SelectSeq(avus, LAMBDA m :
                  /\ ~Blacklisted(m[1])
                  /\ op'.keys.given => m[1] \in op'.keys.names)
        /\ ("checksum" \in ret'.fields) <=> (kind = "data_object")
        /\ avus' = avus
        /\ calls' = <<>>]_vars

\* C17 witness: to_dict with keys on a data object has kept one entry and
\* has dropped a visible entry whose name is not in keys.
C17_Witness ==
    /\ op.name = "to_dict"
    /\ op.keys.given
    /\ kind = "data_object"
    /\ ret.metadata # <<>>
    /\ \E m \in Range(avus) : ~Blacklisted(m[1]) /\ m[1] \notin op.keys.names

\* A component order that puts None before every string.
NoneFirstLt(a, b) ==
    IF (a = None) # (b = None)
    THEN a = None
    ELSE a # None /\ SeqLt(Text(a), Text(b))

\* Entry a comes before entry b by name, then value, then units, None first.
EntryLt(a, b) ==
    \/ NoneFirstLt(a[1], b[1])
    \/ a[1] = b[1] /\ NoneFirstLt(a[2], b[2])
    \/ a[1] = b[1] /\ a[2] = b[2] /\ NoneFirstLt(a[3], b[3])

\* C18: String representation order.  str(view) lists the non-blacklisted
\* entries sorted by name, then value, then units, an entry whose component
\* is None before every entry whose component is not None.
C18_StrOrder ==
    op.name = "str" =>
        LET shown == {m \in Range(avus) : ~Blacklisted(m[1])}
            rank(m) == 1 + Cardinality({x \in shown : EntryLt(x, m)})
        IN  /\ Len(ret) = Cardinality(shown)
            /\ \A m \in shown : ret[rank(m)] = Line(m)

\* The number of records of a list that describe item p.
Records(list, p) == Cardinality({i \in 1..Len(list) : list[i].irods_id = p})

\* C20: Flat inventory is complete.  A recursive export of a collection
\* lists every data object below the root exactly once in "dataobjects" and
\* every subcollection below the root exactly once in "subcollections", and
\* neither list has a record for anything else, the root included.
C20_FlatInventoryComplete ==
    (op.name = "export" /\ op.recursive /\ kind = "collection") =>
        /\ err = NoError
        /\ \A p \in objs : Records(ret.dataobjects, p) = 1
        /\ \A i \in 1..Len(ret.dataobjects) : ret.dataobjects[i].irods_id \in objs
        /\ \A p \in colls \ {Root} : Records(ret.subcollections, p) = 1
        /\ \A i \in 1..Len(ret.subcollections) :
               ret.subcollections[i].irods_id \in colls \ {Root}

\* C20 witness: a recursive export of a tree that has a data object in a
\* subcollection and a subcollection in a subcollection.
C20_Witness ==
    /\ op.name = "export"
    /\ op.recursive
    /\ kind = "collection"
    /\ \E p \in objs : Len(p) = Len(Root) + 2
    /\ \E p \in colls : Len(p) = Len(Root) + 2
    /\ Len(ret.dataobjects) >= 1
    /\ Len(ret.subcollections) >= 2

\* The descendant records of a recursive export of a collection.
RecursiveExport == op.name = "export" /\ op.recursive /\ kind = "collection"

Descendants == Range(ret.dataobjects) \cup Range(ret.subcollections)

\* The segments of a path beyond the export root, joined with "/".
RECURSIVE BelowRoot(_)
BelowRoot(path) ==
    IF Len(path) = Len(Root) + 1 THEN path[Len(path)]
    ELSE BelowRoot(SubSeq(path, 1, Len(path) - 1)) \o "/" \o path[Len(path)]

\* C21: Relative paths.  In a recursive export the rel_path of every
\* descendant record, at every depth, is the descendant's path segments
\* beyond the export root joined with "/".
C21_RelPathFromRoot ==
    RecursiveExport =>
        \A rec \in Descendants : rec.rel_path = BelowRoot(rec.irods_id)

\* C21 witness: the export holds the record of a data object two levels
\* below the root, with rel_path "s/x".
C21_Witness ==
    /\ RecursiveExport
    /\ \E rec \in Range(ret.dataobjects) :
            /\ rec.irods_id = Root \o <<"s", "x">>
            /\ rec.rel_path = "s/x"

\* C22: Export without recursion.  For a data object, and for a collection
\* with recursive false, export returns to_dict(keys) of the item with no
\* "subcollections" and no "dataobjects" (and with "checksum" for a data
\* object); for any other item it fails with a ValueError.
C22_ExportWithoutRecursion ==
    op.name = "export" =>
        /\ (kind = "data_object" \/ (kind = "collection" /\ ~op.recursive)) =>
              /\ err = NoError
              /\ ret.fields \cap {"subcollections", "dataobjects"} = {}
              /\ ("checksum" \in ret.fields) <=> (kind = "data_object")
              /\ ret = [fields |-> ret.fields,
                        metadata |-> SelectSeq(avus, LAMBDA m :
                            /\ ~Blacklisted(m[1])
                            /\ op.keys.given => m[1] \in op.keys.names)]
        /\ kind \notin {"data_object", "collection"} => err = "ValueError"

\* C22 witness: a non-recursive export of a collection that has items below
\* it.
C22_Witness ==
    /\ op.name = "export"
    /\ ~op.recursive
    /\ kind = "collection"
    /\ objs # {}
    /\ colls # {Root}
    /\ err = NoError

\* The entries of an item below the root that its own view shows.
NodeVisible(path) ==
    SelectSeq(NodeAvus(path), LAMBDA m : ~ReMatch(DefaultBlacklist, m[1]))

\* C23: Descendant record shape.  In a recursive export the "metadata"
\* field of every descendant record is the list of that descendant's
\* non-blacklisted (name, value, units) triplets, the shape of the root's
\* "metadata" field and the shape from_dict iterates over.
C23_DescendantMetadataIsList ==
    RecursiveExport =>
        \A rec \in Descendants :
            /\ rec.metadata.type = "list"
            /\ rec.metadata.value = NodeVisible(rec.irods_id)

\* Some subcollection below the root has no record although a data object
\* directly in it has one.
Truncated ==
    \E c \in colls \ {Root} :
        /\ Records(ret.subcollections, c) = 0
        /\ \E rec \in Range(ret.dataobjects) :
               SubSeq(rec.irods_id, 1, Len(rec.irods_id) - 1) = c

\* A subcollection that has no subcollections of its own and holds a data
\* object.
LeafContainers ==
    {c \in colls \ {Root} :
        /\ subcollections(c) = <<>>
        /\ data_objects(c) # <<>>}

\* C27 as stated: Truncation at leaf containers.  A recursive export of a
\* tree that has a subcollection with zero direct subcollections omits the
\* record of some subcollection whose data objects are in "dataobjects".
C27_TruncationAtLeaf ==
    (RecursiveExport /\ LeafContainers # {}) => Truncated

\* C27 as amended: no recursive export of a collection omits the record of
\* a subcollection whose data objects are in "dataobjects".
C27_NoTruncation ==
    (RecursiveExport /\ err = NoError) => ~Truncated

\* C27 witness: a recursive export of a tree whose leaf container, two
\* levels below the root, holds a data object; both have their records.
C27_Witness ==
    /\ RecursiveExport
    /\ \E c \in LeafContainers :
            /\ Len(c) = Len(Root) + 2
            /\ Records(ret.subcollections, c) = 1
            /\ Records(ret.dataobjects, Append(c, "x")) = 1

\* The triplets in the "metadata" of a descendant record.
MetadataList(rec) ==
    IF rec.metadata.type = "list"
    THEN rec.metadata.value
    ELSE rec.metadata.value.metadata

\* C30: Keys filter.  When keys is given to a recursive export of a
\* collection, the metadata list of the root and that of every descendant
\* record hold only entries whose name is in keys.
C30_KeysFilterWholeExport ==
    (RecursiveExport /\ op.keys.given) =>
        /\ \A m \in Range(ret.metadata) : m[1] \in op.keys.names
        /\ \A rec \in Descendants :
               \A m \in Range(MetadataList(rec)) : m[1] \in op.keys.names

\* The errors with which the add step of set or update can fail.
AddFailures ==
    {"Duplicate", "BlacklistViolation", "AddNoAccess",
     "CATALOG_ALREADY_HAS_ITEM_BY_THAT_NAME"}

\* The remote calls of one kind among the calls of an operation.
CallsOf(cs, kindOfCall) == {i \in 1..Len(cs) : cs[i][1] = kindOfCall}

\* C24: Update adds before it deletes.  Whenever the add of the replacement
\* fails inside update, update raises that error without having issued any
\* remove, and the item is exactly as before the call.
C24_UpdateAddFailure ==
    [][(op'.name = "update" /\ err' \in AddFailures) =>
        /\ CallsOf(calls', "remove") = {}
        /\ avus' = avus]_vars

\* C24 witness: update was denied at its add; the entry it was aimed at is
\* still on the item.
C24_Witness ==
    /\ op.name = "update"
    /\ err = "AddNoAccess"
    /\ Len(calls) = 1
    /\ \E m \in Range(avus) : UpdateMatch(op, m)

\* C25: Set is not transactional.  When the add step of set fails after the
\* delete step, and no other client has changed the AVUs meanwhile, set
\* ends with the add's error and the item holds no entry for key: the
\* entries it removed are not back on the item.
C25_SetNotTransactional ==
    (op.name = "set" /\ pc = "done" /\ err \in AddFailures /\ ext = 0) =>
        /\ GetAll(avus, op.key) = <<>>
        /\ \A i \in CallsOf(calls, "remove") :
               Stored(calls[i][2], calls[i][3], calls[i][4]) \notin Range(avus)

\* C25 witness: set has removed two entries of its key, was then denied at
\* its add, and the key has no entry.
C25_Witness ==
    /\ op.name = "set"
    /\ pc = "done"
    /\ err = "AddNoAccess"
    /\ ext = 0
    /\ Cardinality(CallsOf(calls, "remove")) = 2
    /\ GetAll(avus, op.key) = <<>>

\* C26: Non-atomicity.  Between the delete half and the add half of set the
\* key has no entry, and between the add and the delete of update the
\* original and the replacement are both on the item (when no other client
\* has changed the AVUs during the call); at both points another client's
\* change of the AVUs is enabled.
C26_NonAtomicity ==
    /\ (op.name = "set" /\ pc \in {"contains", "add"} /\ ext = 0) =>
            GetAll(avus, op.key) = <<>>
    /\ (op.name = "update" /\ pc = "remove" /\ ext = 0) =>
            LET t == AddArgs(op)
                new == Stored(t[1], t[2], t[3])
            IN  \E m \in Range(avus) :
                    /\ UpdateMatch(op, m)
                    /\ new \in Range(avus)
                    /\ new # m
    /\ (pc \in {"contains", "add", "remove"} /\ ext < MaxExt) =>
            ENABLED (ExternalAdd \/ ExternalRemove)

\* C26 witness: set has removed the entries of its key and has not added
\* the new one yet: the key has no entry.
C26_Witness ==
    /\ op.name = "set"
    /\ pc = "add"
    /\ ext = 0
    /\ CallsOf(calls, "remove") # {}
    /\ GetAll(avus, op.key) = <<>>

\* C28: Update is all-or-nothing.  Every update call that raises an error
\* leaves the item exactly as it was before the call.
C28_UpdateAllOrNothing ==
    [][(op'.name = "update" /\ err' # NoError) => avus' = avus]_vars

\* C29: delete with a wildcard value and explicit units.  With access,
\* delete(key, value=..., units=u) removes exactly the entries with that key
\* whose units equal u and leaves every other entry on the item.
C29_DeleteWildcardValue ==
    [][(op'.name = "delete" /\ op'.value = Ellipsis /\ op'.units # Ellipsis
            /\ access) =>
        LET o == op'
        IN  avus' = SelectSeq(avus, LAMBDA m : ~DeleteTarget(o, m))]_vars

====
